---- MODULE Spec2Model ----
(***************************************************************************)
(* run_visualization of ivadomed: the step-by-step visualisation of the    *)
(* training transforms on n randomly drawn slices of a volume.  Two        *)
(* versions of the function are in the repository: the packaged script     *)
(* ivadomed/scripts/visualize_transforms.py (script = "scripts") and the   *)
(* earlier dev/visualize_transforms.py (script = "dev").                   *)
(*                                                                         *)
(* Strings are sequences of tokens: a transform name is one token (the     *)
(* names are class names and hold no "_"), "_" , "slice", ".png" and the   *)
(* decimal digits are tokens.  An array is the record of where it comes    *)
(* from: the volume, the slice index, the transforms applied to it and the *)
(* crop bounds used.  SampleMetadata objects live in a heap and are        *)
(* referred to by their position in it, so that aliasing is visible.       *)
(***************************************************************************)
EXTENDS Integers, Sequences, FiniteSets, TLC

\* Bounds of the model.
MaxDepth == 2
MaxTransforms == 3

\* The transform names a configuration can hold.
TransformNames == {"Resample", "ROICrop", "NumpyToTensor", "RandomAffine"}

VARIABLES
    script,              \* which version of run_visualization runs
    training_transforms, \* ordered dict name -> parameters, as a sequence of [name, params]
    n_slices,            \* int(args.number)
    depth,               \* input_data.shape[2]
    binary,              \* whether the input volume holds only 0 and 1
    fname_roi,           \* "none" (not given), "missing" (no such file), "file"
    inplace,             \* whether the transforms update the metadata they are given in place
    pc,                  \* position in run_visualization
    exit_status,         \* -1 while running, then the status of the process
    stdout,              \* the lines printed
    raised,              \* the exception that ended the run, "" when none
    is_mask,
    indexes,
    roi_data,            \* whether the ROI volume has been loaded
    t_idx,               \* number of entries of training_transforms the loop has taken
    dict_transforms,
    stg_transforms,
    composed_transforms, \* the transforms the Compose object was built from
    s_idx,               \* number of entries of indexes the inner loop has taken
    data,
    metadata,            \* the heap position the local name metadata refers to
    heap,                \* the SampleMetadata objects created so far
    stack_im,
    before,
    after,
    composes,            \* the transforms handed to Compose(...), one entry per construction
    calls,               \* the calls of the Compose object, in order
    plots                \* the calls of plot_transformed_sample, in order

vars == <<script, training_transforms, n_slices, depth, binary, fname_roi, inplace,
          pc, exit_status, stdout, raised, is_mask, indexes, roi_data, t_idx,
          dict_transforms, stg_transforms, composed_transforms, s_idx, data,
          metadata, heap, stack_im, before, after, composes, calls, plots>>

inputs == <<script, training_transforms, n_slices, depth, binary, fname_roi, inplace>>

----------------------------------------------------------------------------
\* Values

NoCrop == [vol |-> "none", slice |-> -1]
NoArr == [vol |-> "none", slice |-> -1, applied |-> <<>>, crop |-> NoCrop,
          scaled |-> FALSE, rot |-> FALSE]

Min(a, b) == IF a < b THEN a ELSE b

Range(s) == {s[j] : j \in 1..Len(s)}

\* The sequences of at most k pairwise distinct elements of S.
RECURSIVE InjSeqs(_, _)
InjSeqs(S, k) ==
    IF k = 0 THEN {<<>>}
    ELSE LET shorter == InjSeqs(S, k - 1)
         IN shorter \cup
            {Append(p[1], p[2]) :
                p \in {q \in shorter \X S : Len(q[1]) = k - 1 /\ q[2] \notin Range(q[1])}}

Names(d) == [j \in 1..Len(d) |-> d[j].name]

\* A configuration: the training transforms in the order of the JSON object,
\* each with its parameters (identified by the position in the configuration).
Configs ==
    {[j \in 1..Len(s) |-> [name |-> s[j], params |-> j]] :
        s \in InjSeqs(TransformNames, MaxTransforms)}

----------------------------------------------------------------------------
\* Strings

Digits == <<"0", "1", "2", "3", "4", "5", "6", "7", "8", "9">>

\* str(i) of a non-negative integer: its decimal digits.
RECURSIVE Str(_)
Str(i) == IF i < 10 THEN <<Digits[i + 1]>> ELSE Str(i \div 10) \o <<Digits[(i % 10) + 1]>>

\* sep.join(parts), parts a sequence of strings.
RECURSIVE Join(_, _)
Join(parts, sep) ==
    IF parts = <<>> THEN <<>>
    ELSE IF Len(parts) = 1 THEN parts[1]
    ELSE parts[1] \o sep \o Join(Tail(parts), sep)

\* s.split(sep) for a separator of one token: the pieces between the separators.
RECURSIVE Split(_, _)
Split(s, sep) ==
    IF \A j \in 1..Len(s) : s[j] # sep THEN <<s>>
    ELSE LET j == CHOOSE k \in 1..Len(s) : s[k] = sep /\ \A m \in 1..(k - 1) : s[m] # sep
         IN <<SubSeq(s, 1, j - 1)>> \o Split(SubSeq(s, j + 1, Len(s)), sep)

\* s[:-1]
DropLast(s) == SubSeq(s, 1, Len(s) - 1)

----------------------------------------------------------------------------
\* The pieces of run_visualization

\* A sampling that may draw the same index twice.
SampleWithReplacement(D, n) ==
    IF n < 0 \/ n > D THEN {[err |-> TRUE, idx |-> <<>>]}
    ELSE {[err |-> FALSE, idx |-> s] : s \in [1..n -> 0..(D - 1)]}

\* A sampling that clamps the count to the depth instead of raising.
SampleClamped(D, n) ==
    IF n < 0 THEN {[err |-> TRUE, idx |-> <<>>]}
    ELSE {[err |-> FALSE, idx |-> s] :
            s \in {t \in InjSeqs(0..(D - 1), Min(n, D)) : Len(t) = Min(n, D)}}

\* random.sample(range(0, D), n): ValueError when n is negative or larger than
\* the population, else any n pairwise distinct indices in any order.
SampleOutcomes(D, n) ==
    IF n < 0 \/ n > D THEN {[err |-> TRUE, idx |-> <<>>]}
    ELSE {[err |-> FALSE, idx |-> s] : s \in {t \in InjSeqs(0..(D - 1), n) : Len(t) = n}}

\* The status of a process ended by an uncaught exception.
UncaughtStatus == 1

\* The status of a process ended by exit() with no argument.
ExitStatus == 0

\* "ROICrop" in training_transforms
HasROICrop(tt) == "ROICrop" \in Range(Names(tt))

\* A check of the ROI path that accepts any path.
RoiAlwaysValid(roi) == TRUE

\* fname_roi and os.path.isfile(fname_roi)
RoiIsFile(roi) == roi = "file"

RoiMessage == "Please provide ROI image (-r) in order to apply ROICrop transformation."

\* An update that puts the new key first.
DictPrepend(d, name, params) == <<[name |-> name, params |-> params]>> \o d

\* dict_transforms.update({name: params}): a new key goes last, a known key
\* keeps its place and takes the new value.
DictUpdate(d, name, params) ==
    IF \E j \in 1..Len(d) : d[j].name = name
    THEN [j \in 1..Len(d) |->
            IF d[j].name = name THEN [name |-> name, params |-> params] ELSE d[j]]
    ELSE Append(d, [name |-> name, params |-> params])

\* input_data[:, :, i]
InputSlice(i) == [NoArr EXCEPT !.vol = "input", !.slice = i]

\* A ROI slice taken at index 0 whatever the index of the loop.
RoiSliceFirst(i) == [NoArr EXCEPT !.vol = "roi", !.slice = 0]

\* roi_data[:, :, i]
RoiSlice(i) == [NoArr EXCEPT !.vol = "roi", !.slice = i]

\* SampleMetadata({"zooms": zooms, "data_type": dt})
NewMetadata(dt) ==
    [zooms |-> "zooms", data_type |-> dt, crop_params |-> NoCrop, extra |-> {}]

\* "gt" if is_mask else "im"
Role(mask) == IF mask THEN "gt" ELSE "im"

\* metadata.__setitem__('data_type', dt)
SetDataType(h, id, dt) == [h EXCEPT ![id].data_type = dt]

\* [metadata for _ in range(n)]
MetadataList(id, n) == [j \in 1..n |-> id]

\* the data_type the metadata takes after the pipeline has run on the ROI
RoiRetag(mask) == "im"

\* A file name without the slice index.
FnameNoIndex(stg, i) == <<"folder_output", "/">> \o stg \o <<"slice", ".png">>

\* os.path.join(folder_output, stg_transforms + "slice" + str(i) + ".png")
FnameOut(stg, i) == <<"folder_output", "/">> \o stg \o <<"slice">> \o Str(i) \o <<".png">>

----------------------------------------------------------------------------
\* The transform library (ivadomed.transforms), as the specification describes it

\* One transform on one (array, metadata) pair.  Every transform records itself
\* in the metadata; the ROI-dependent crop computes its bounds from the array
\* it is given when the metadata holds none, records them, and crops with the
\* bounds the metadata holds.
ApplyTransform(name, arr, md) ==
    LET md1 == [md EXCEPT !.extra = @ \cup {name},
                          !.crop_params = IF name = "ROICrop" /\ @ = NoCrop
                                          THEN [vol |-> arr.vol, slice |-> arr.slice]
                                          ELSE @]
        arr1 == [arr EXCEPT !.applied = Append(@, name),
                            !.crop = IF name = "ROICrop" THEN md1.crop_params ELSE @]
    IN <<arr1, md1>>

\* The transforms of a pipeline in order on one (array, metadata) pair.
RECURSIVE RunTransforms(_, _, _)
RunTransforms(names, arr, md) ==
    IF names = <<>> THEN <<arr, md>>
    ELSE LET r == ApplyTransform(Head(names), arr, md)
         IN RunTransforms(Tail(names), r[1], r[2])

\* Compose.__call__(sample, metadata, data_type) from the j-th sample on: the
\* samples are paired with the metadata entries; a transform either updates
\* the metadata object it is given (inpl) or returns a new object.
RECURSIVE ComposeFrom(_, _, _, _, _, _)
ComposeFrom(j, names, sample, mds, h, inpl) ==
    IF j > Min(Len(sample), Len(mds))
    THEN [out |-> <<>>, mds |-> <<>>, heap |-> h]
    ELSE LET r == RunTransforms(names, sample[j], h[mds[j]])
             h1 == IF inpl THEN [h EXCEPT ![mds[j]] = r[2]] ELSE Append(h, r[2])
             id == IF inpl THEN mds[j] ELSE Len(h1)
             rest == ComposeFrom(j + 1, names, sample, mds, h1, inpl)
         IN [out |-> <<r[1]>> \o rest.out, mds |-> <<id>> \o rest.mds, heap |-> rest.heap]

ComposeCall(names, sample, mds, h, inpl) == ComposeFrom(1, names, sample, mds, h, inpl)

\* imed_transforms.rescale_values_array(arr, 0.0, 1.0)
Rescale(arr) == [arr EXCEPT !.scaled = TRUE]

\* np.rot90(arr)
Rot90(arr) == [arr EXCEPT !.rot = TRUE]

\* The record of one call of the Compose object.
CallRecord(kind, i, sample, mds, h, r) ==
    [data_type |-> kind, slice |-> i, pipeline |-> composed_transforms,
     sample |-> sample, md_ids |-> mds,
     md_in |-> [j \in 1..Len(mds) |-> h[mds[j]]],
     out |-> r.out, md_out_ids |-> r.mds,
     md_out |-> [j \in 1..Len(r.mds) |-> r.heap[r.mds[j]]]]

----------------------------------------------------------------------------
\* ivadomed/scripts/visualize_transforms.py

Init ==
    /\ script \in {"scripts", "dev"}
    /\ training_transforms \in Configs
    /\ n_slices \in (-1)..(MaxDepth + 1)
    /\ depth \in 1..MaxDepth
    /\ binary \in BOOLEAN
    /\ fname_roi \in IF script = "scripts" THEN {"none", "missing", "file"} ELSE {"none"}
    /\ inplace \in BOOLEAN
    /\ pc = "load"
    /\ exit_status = -1
    /\ stdout = <<>>
    /\ raised = ""
    /\ is_mask = FALSE
    /\ indexes = <<>>
    /\ roi_data = FALSE
    /\ t_idx = 0
    /\ dict_transforms = <<>>
    /\ stg_transforms = <<>>
    /\ composed_transforms = <<>>
    /\ s_idx = 0
    /\ data = <<>>
    /\ metadata = 0
    /\ heap = <<>>
    /\ stack_im = <<>>
    /\ before = NoArr
    /\ after = NoArr
    /\ composes = <<>>
    /\ calls = <<>>
    /\ plots = <<>>

\* The slice index of the running iteration of "for i in indexes".
CurIndex == indexes[s_idx + 1]

\* Lines 92-108: the context, the volume, is_mask, the indexes.
Load ==
    /\ script = "scripts"
    /\ pc = "load"
    /\ is_mask' = binary
    /\ \E o \in SampleOutcomes(depth, n_slices) :
          IF o.err
          THEN /\ raised' = "ValueError"
               /\ exit_status' = UncaughtStatus
               /\ pc' = "done"
               /\ indexes' = indexes
          ELSE /\ indexes' = o.idx
               /\ pc' = "gate"
               /\ UNCHANGED <<raised, exit_status>>
    /\ UNCHANGED <<inputs, composes, stdout, roi_data, t_idx, dict_transforms, stg_transforms,
                   composed_transforms, s_idx, data, metadata, heap, stack_im,
                   before, after, calls, plots>>

\* Lines 110-118: the ROI is loaded when ROICrop is configured, or the run exits.
ROIGate ==
    /\ script = "scripts"
    /\ pc = "gate"
    /\ IF HasROICrop(training_transforms)
       THEN IF RoiIsFile(fname_roi)
            THEN /\ roi_data' = TRUE
                 /\ pc' = "for_transform"
                 /\ UNCHANGED <<stdout, exit_status>>
            ELSE /\ stdout' = Append(stdout, RoiMessage)
                 /\ exit_status' = ExitStatus
                 /\ pc' = "done"
                 /\ UNCHANGED roi_data
       ELSE /\ pc' = "for_transform"
            /\ UNCHANGED <<roi_data, stdout, exit_status>>
    /\ UNCHANGED <<inputs, composes, raised, is_mask, indexes, t_idx, dict_transforms,
                   stg_transforms, composed_transforms, s_idx, data, metadata, heap,
                   stack_im, before, after, calls, plots>>

\* Lines 123-126: NumpyToTensor is skipped.
SkipTransform ==
    /\ script = "scripts"
    /\ pc = "for_transform"
    /\ t_idx < Len(training_transforms)
    /\ training_transforms[t_idx + 1].name = "NumpyToTensor"
    /\ t_idx' = t_idx + 1
    /\ UNCHANGED <<inputs, composes, pc, exit_status, stdout, raised, is_mask, indexes, roi_data,
                   dict_transforms, stg_transforms, composed_transforms, s_idx, data,
                   metadata, heap, stack_im, before, after, calls, plots>>

\* Lines 123-133: the next transform joins the string, the dict and the Compose.
AddTransform ==
    /\ script = "scripts"
    /\ pc = "for_transform"
    /\ t_idx < Len(training_transforms)
    /\ LET spec == training_transforms[t_idx + 1]
       IN /\ spec.name # "NumpyToTensor"
          /\ stg_transforms' = stg_transforms \o <<spec.name, "_">>
          /\ dict_transforms' = DictUpdate(dict_transforms, spec.name, spec.params)
          /\ composed_transforms' = dict_transforms'
          /\ composes' = Append(composes, dict_transforms')
    /\ t_idx' = t_idx + 1
    /\ s_idx' = 0
    /\ pc' = "for_slice"
    /\ UNCHANGED <<inputs, exit_status, stdout, raised, is_mask, indexes, roi_data,
                   data, metadata, heap, stack_im, before, after, calls, plots>>

\* Line 123, no transform left: the function returns and the process ends.
Return ==
    /\ script = "scripts"
    /\ pc = "for_transform"
    /\ t_idx = Len(training_transforms)
    /\ pc' = "done"
    /\ exit_status' = 0
    /\ UNCHANGED <<inputs, composes, stdout, raised, is_mask, indexes, roi_data, t_idx,
                   dict_transforms, stg_transforms, composed_transforms, s_idx, data,
                   metadata, heap, stack_im, before, after, calls, plots>>

\* Line 136, no index left: back to the loop over the transforms.
EndSlices ==
    /\ script = "scripts"
    /\ pc = "for_slice"
    /\ s_idx = Len(indexes)
    /\ pc' = "for_transform"
    /\ UNCHANGED <<inputs, composes, exit_status, stdout, raised, is_mask, indexes, roi_data, t_idx,
                   dict_transforms, stg_transforms, composed_transforms, s_idx, data,
                   metadata, heap, stack_im, before, after, calls, plots>>

\* Lines 136-139: the slice and a new metadata object.
InitSlice ==
    /\ script = "scripts"
    /\ pc = "for_slice"
    /\ s_idx < Len(indexes)
    /\ data' = <<InputSlice(CurIndex)>>
    /\ heap' = Append(heap, NewMetadata(Role(is_mask)))
    /\ metadata' = Len(heap')
    /\ pc' = "roi"
    /\ UNCHANGED <<inputs, composes, exit_status, stdout, raised, is_mask, indexes, roi_data, t_idx,
                   dict_transforms, stg_transforms, composed_transforms, s_idx,
                   stack_im, before, after, calls, plots>>

\* Line 142
RoiApplies == HasROICrop(training_transforms) /\ fname_roi = "file"

\* Lines 141-149: the pipeline on the ROI slice, whose metadata is kept.
ApplyROI ==
    /\ script = "scripts"
    /\ pc = "roi"
    /\ RoiApplies
    /\ LET roi == <<RoiSlice(CurIndex)>>
           h1 == SetDataType(heap, metadata, "roi")
           mds == MetadataList(metadata, n_slices)
           r == ComposeCall(Names(composed_transforms), roi, mds, h1, inplace)
       IN /\ metadata' = r.mds[1]
          /\ heap' = SetDataType(r.heap, r.mds[1], RoiRetag(is_mask))
          /\ calls' = Append(calls, CallRecord("roi", CurIndex, roi, mds, h1, r))
    /\ pc' = "apply_im"
    /\ UNCHANGED <<inputs, composes, exit_status, stdout, raised, is_mask, indexes, roi_data, t_idx,
                   dict_transforms, stg_transforms, composed_transforms, s_idx, data,
                   stack_im, before, after, plots>>

\* Line 142, condition false.
SkipROI ==
    /\ script = "scripts"
    /\ pc = "roi"
    /\ ~RoiApplies
    /\ pc' = "apply_im"
    /\ UNCHANGED <<inputs, composes, exit_status, stdout, raised, is_mask, indexes, roi_data, t_idx,
                   dict_transforms, stg_transforms, composed_transforms, s_idx, data,
                   metadata, heap, stack_im, before, after, calls, plots>>

\* Lines 151-154: the pipeline on the slice.
ApplyImage ==
    /\ script = "scripts"
    /\ pc = "apply_im"
    /\ LET mds == MetadataList(metadata, n_slices)
           r == ComposeCall(Names(composed_transforms), data, mds, heap, inplace)
       IN /\ stack_im' = r.out
          /\ heap' = r.heap
          /\ calls' = Append(calls, CallRecord("im", CurIndex, data, mds, heap, r))
    /\ pc' = "plot"
    /\ UNCHANGED <<inputs, composes, exit_status, stdout, raised, is_mask, indexes, roi_data, t_idx,
                   dict_transforms, stg_transforms, composed_transforms, s_idx, data,
                   metadata, before, after, plots>>

\* Lines 161-164: the array shown as "before".
BeforeArray ==
    IF Len(Split(DropLast(stg_transforms), "_")) = 1
    THEN Rot90(Rescale(data[1]))
    ELSE after

\* Lines 156-172: the file name, the two arrays, the call of the renderer.
Plot ==
    /\ script = "scripts"
    /\ pc = "plot"
    /\ before' = BeforeArray
    /\ after' = Rot90(Rescale(stack_im[1]))
    /\ LET pieces == Split(DropLast(stg_transforms), "_")
       IN plots' = Append(plots,
            [before |-> before', after |-> after',
             list_title |-> <<Join(DropLast(pieces), <<"\n">>), Join(pieces, <<"\n">>)>>,
             fname_out |-> FnameOut(stg_transforms, CurIndex),
             cmap |-> IF is_mask THEN "jet" ELSE "gray",
             pipeline |-> composed_transforms, slice |-> CurIndex])
    /\ stdout' = stdout \o <<"Fname out", "metadata">>
    /\ s_idx' = s_idx + 1
    /\ pc' = "for_slice"
    /\ UNCHANGED <<inputs, composes, exit_status, raised, is_mask, indexes, roi_data, t_idx,
                   dict_transforms, stg_transforms, composed_transforms, data,
                   metadata, heap, stack_im, calls>>

----------------------------------------------------------------------------
\* dev/visualize_transforms.py

\* Lines 52-73: the parameters, the volume, the indexes.
DevLoad ==
    /\ script = "dev"
    /\ pc = "load"
    /\ \E o \in SampleOutcomes(depth, n_slices) :
          IF o.err
          THEN /\ raised' = "ValueError"
               /\ exit_status' = UncaughtStatus
               /\ pc' = "done"
               /\ indexes' = indexes
          ELSE /\ indexes' = o.idx
               /\ pc' = "for_transform"
               /\ UNCHANGED <<raised, exit_status>>
    /\ UNCHANGED <<inputs, composes, stdout, is_mask, roi_data, t_idx, dict_transforms,
                   stg_transforms, composed_transforms, s_idx, data, metadata, heap,
                   stack_im, before, after, calls, plots>>

\* Lines 81-87: the next transform joins the string, the dict and the Compose.
DevAddTransform ==
    /\ script = "dev"
    /\ pc = "for_transform"
    /\ t_idx < Len(training_transforms)
    /\ LET spec == training_transforms[t_idx + 1]
       IN /\ stg_transforms' = stg_transforms \o <<spec.name, "_">>
          /\ dict_transforms' = DictUpdate(dict_transforms, spec.name, spec.params)
          /\ composed_transforms' = dict_transforms'
          /\ composes' = Append(composes, dict_transforms')
    /\ t_idx' = t_idx + 1
    /\ s_idx' = 0
    /\ pc' = "for_slice"
    /\ UNCHANGED <<inputs, exit_status, stdout, raised, is_mask, indexes, roi_data,
                   data, metadata, heap, stack_im, before, after, calls, plots>>

\* Line 81, no transform left: the function returns and the process ends.
DevReturn ==
    /\ script = "dev"
    /\ pc = "for_transform"
    /\ t_idx = Len(training_transforms)
    /\ pc' = "done"
    /\ exit_status' = 0
    /\ UNCHANGED <<inputs, composes, stdout, raised, is_mask, indexes, roi_data, t_idx,
                   dict_transforms, stg_transforms, composed_transforms, s_idx, data,
                   metadata, heap, stack_im, before, after, calls, plots>>

\* Line 90, no index left: back to the loop over the transforms.
DevEndSlices ==
    /\ script = "dev"
    /\ pc = "for_slice"
    /\ s_idx = Len(indexes)
    /\ pc' = "for_transform"
    /\ UNCHANGED <<inputs, composes, exit_status, stdout, raised, is_mask, indexes, roi_data, t_idx,
                   dict_transforms, stg_transforms, composed_transforms, s_idx, data,
                   metadata, heap, stack_im, before, after, calls, plots>>

\* Lines 90-96: the slice, a new metadata object, the pipeline on the slice.
DevApply ==
    /\ script = "dev"
    /\ pc = "for_slice"
    /\ s_idx < Len(indexes)
    /\ data' = <<InputSlice(CurIndex)>>
    /\ LET h1 == Append(heap, NewMetadata("im"))
           mds == MetadataList(Len(h1), n_slices)
           r == ComposeCall(Names(composed_transforms), data', mds, h1, inplace)
       IN /\ metadata' = Len(h1)
          /\ stack_im' = r.out
          /\ heap' = r.heap
          /\ calls' = Append(calls, CallRecord("im", CurIndex, data', mds, h1, r))
    /\ pc' = "plot"
    /\ UNCHANGED <<inputs, composes, exit_status, stdout, raised, is_mask, indexes, roi_data, t_idx,
                   dict_transforms, stg_transforms, composed_transforms, s_idx,
                   before, after, plots>>

\* Lines 98-110: the file name, the two arrays, the call of the renderer.
DevPlot ==
    /\ script = "dev"
    /\ pc = "plot"
    /\ before' = Rescale(data[1])
    /\ after' = Rescale(stack_im[1])
    /\ LET pieces == Split(DropLast(stg_transforms), "_")
       IN plots' = Append(plots,
            [before |-> before', after |-> after',
             list_title |-> <<Join(DropLast(pieces), <<"_">>), DropLast(stg_transforms)>>,
             fname_out |-> FnameOut(stg_transforms, CurIndex),
             cmap |-> "gray",
             pipeline |-> composed_transforms, slice |-> CurIndex])
    /\ stdout' = stdout \o <<"Fname out", "metadata">>
    /\ s_idx' = s_idx + 1
    /\ pc' = "for_slice"
    /\ UNCHANGED <<inputs, composes, exit_status, raised, is_mask, indexes, roi_data, t_idx,
                   dict_transforms, stg_transforms, composed_transforms, data,
                   metadata, heap, stack_im, calls>>

----------------------------------------------------------------------------

Next ==
    \/ Load
    \/ ROIGate
    \/ SkipTransform
    \/ AddTransform
    \/ Return
    \/ EndSlices
    \/ InitSlice
    \/ ApplyROI
    \/ SkipROI
    \/ ApplyImage
    \/ Plot
    \/ DevLoad
    \/ DevAddTransform
    \/ DevReturn
    \/ DevEndSlices
    \/ DevApply
    \/ DevPlot

Spec == Init /\ [][Next]_vars

----------------------------------------------------------------------------
\* Properties

Done == pc = "done"

InScripts == script = "scripts"

\* ROICrop is configured and the ROI path is absent or names no file.
RoiMissing == HasROICrop(training_transforms) /\ fname_roi # "file"

\* The run was stopped by the ROI message: printed, nothing raised.
StoppedByRoiMessage == stdout = <<RoiMessage>> /\ raised = ""

\* The entries of the configuration the loop does not skip.
Kept(tt) == SelectSeq(tt, LAMBDA e : ~(InScripts /\ e.name = "NumpyToTensor"))

\* The file key of an output path: the path without the folder and the extension.
KeyOf(fname) == SubSeq(fname, 3, Len(fname) - 1)

\* The names of a pipeline as strings.
NameStrings(names) == [j \in 1..Len(names) |-> <<names[j]>>]

SameButDataType(m1, m2) == [m1 EXCEPT !.data_type = ""] = [m2 EXCEPT !.data_type = ""]

\* C1 as claimed: with ROICrop configured and no valid ROI, the run always
\* stops with the ROI message, before any pipeline application or renderer call.
C1_Original ==
    (InScripts /\ RoiMissing) =>
        /\ calls = <<>> /\ plots = <<>>
        /\ pc \in {"load", "gate", "done"}
        /\ Done => StoppedByRoiMessage

\* C1 amended: with ROICrop configured and no valid ROI, no pipeline is ever
\* applied and the renderer is never called; the run stops with the ROI message
\* when the slice count is in 0..D, and with the ValueError of the sampling,
\* raised before the ROI is looked at, when it is not.
C1_RoiGate ==
    (InScripts /\ RoiMissing) =>
        /\ calls = <<>> /\ plots = <<>>
        /\ pc \in {"load", "gate", "done"}
        /\ Done => IF n_slices \in 0..depth
                   THEN StoppedByRoiMessage
                   ELSE raised = "ValueError" /\ stdout = <<>>

C1_Witness == InScripts /\ RoiMissing /\ Done /\ StoppedByRoiMessage /\ n_slices > 0

\* C2: with ROICrop configured and no valid ROI, the process ends with a
\* non-zero status after the message.
C2_NonZeroExit ==
    (InScripts /\ RoiMissing /\ Done) => exit_status # 0

\* C3: for any n >= 1, the before and the after array of every renderer call
\* come from the slice of the input volume whose index is in the file name.
C3_SameSlice ==
    \A j \in 1..Len(plots) :
        LET p == plots[j]
        IN /\ p.before.vol = "input" /\ p.after.vol = "input"
           /\ p.before.slice = p.slice
           /\ p.after.slice = p.slice

PrefixChain ==
    \A k \in 1..(Len(composes) - 1) :
        /\ Len(composes[k + 1]) = Len(composes[k]) + 1
        /\ SubSeq(composes[k + 1], 1, Len(composes[k])) = composes[k]

\* C5 as claimed: the pipelines handed to Compose form a chain of strict
\* prefixes, and the one of stage k is the first k specs of the configuration.
C5_Original ==
    /\ PrefixChain
    /\ \A k \in 1..Len(composes) : composes[k] = SubSeq(training_transforms, 1, k)

\* C5 amended: the pipelines handed to Compose form a chain of strict prefixes,
\* and the one of stage k is the first k specs of the configuration once the
\* entries the loop skips (NumpyToTensor in ivadomed/scripts, none in dev) are
\* left out.
C5_PrefixPipeline ==
    /\ PrefixChain
    /\ \A k \in 1..Len(composes) :
          composes[k] = SubSeq(Kept(training_transforms), 1, k)

C5_Witness ==
    /\ Len(composes) >= 2
    /\ InScripts
    /\ training_transforms[1].name = "NumpyToTensor"

\* C6: the file key of every renderer call is the names of the transforms of
\* the pipeline that produced the after array, in order, joined by "_", then
\* "_slice" and the index of the slice.
C6_FileKey ==
    \A j \in 1..Len(plots) :
        LET p == plots[j]
        IN /\ p.after.applied = Names(p.pipeline)
           /\ KeyOf(p.fname_out) =
                 Join(NameStrings(p.after.applied), <<"_">>)
                     \o <<"_", "slice">> \o Str(p.after.slice)

C6_Witness ==
    \E j \in 1..Len(plots) :
        plots[j].fname_out =
            <<"folder_output", "/", "Resample", "_", "ROICrop", "_", "slice", "1", ".png">>

\* C7: in the ROI-gated path the metadata given to the pipeline with the real
\* slice carries the role of the sample: "gt" for a mask, "im" otherwise.
C7_Retag ==
    \A j \in 1..Len(calls) :
        (InScripts /\ RoiApplies /\ calls[j].data_type = "im") =>
            calls[j].md_in[1].data_type = Role(is_mask)

\* C8: with ROICrop configured and a valid ROI, every application of the
\* pipeline to a real slice comes right after the application of the same
\* pipeline to the ROI slice of the same index with metadata tagged "roi", it is
\* given the metadata that application returned with only data_type changed,
\* and the crop it applies uses the bounds computed from the ROI slice.
C8_RoiFirst ==
    \A j \in 1..Len(calls) :
        (InScripts /\ RoiApplies /\ calls[j].data_type = "im") =>
            /\ j > 1
            /\ LET c == calls[j]
                   r == calls[j - 1]
                   i == c.sample[1].slice
               IN /\ c.sample[1].vol = "input"
                  /\ r.data_type = "roi"
                  /\ r.pipeline = c.pipeline
                  /\ r.sample = <<[NoArr EXCEPT !.vol = "roi", !.slice = i]>>
                  /\ r.md_in[1].data_type = "roi"
                  /\ SameButDataType(c.md_in[1], r.md_out[1])
                  /\ "ROICrop" \in Range(Names(c.pipeline)) =>
                        c.out[1].crop = [vol |-> "roi", slice |-> i]

C8_Witness ==
    \E j \in 1..Len(calls) :
        /\ InScripts /\ RoiApplies
        /\ calls[j].data_type = "im"
        /\ calls[j].sample[1].slice = 1
        /\ calls[j].out[1].crop = [vol |-> "roi", slice |-> 1]

\* C9: no two entries of a metadata list handed to the pipeline are the same
\* object, and no object is handed to the calls of two different slices.
C9_NoAliasing ==
    /\ \A j \in 1..Len(calls) :
          \A a, b \in 1..Len(calls[j].md_ids) :
              a # b => calls[j].md_ids[a] # calls[j].md_ids[b]
    /\ \A j, k \in 1..Len(calls) :
          calls[j].sample[1].slice # calls[k].sample[1].slice =>
              Range(calls[j].md_ids) \cap Range(calls[k].md_ids) = {}

\* C10: for 0 < n <= D the indexes are n pairwise distinct integers of [0, D),
\* every stage renders the slices of that one list in its order, and a run
\* that completes has made one renderer call per stage and index.
C10_Indexes ==
    (0 < n_slices /\ n_slices <= depth /\ pc # "load") =>
        /\ Len(indexes) = n_slices
        /\ \A a \in 1..Len(indexes) : indexes[a] \in 0..(depth - 1)
        /\ \A a, b \in 1..Len(indexes) : a # b => indexes[a] # indexes[b]
        /\ \A j \in 1..Len(plots) :
              /\ plots[j].after.slice = indexes[((j - 1) % n_slices) + 1]
              /\ plots[j].pipeline = composes[((j - 1) \div n_slices) + 1]
        /\ Done => Len(plots) = n_slices * Len(composes)

C10_Witness == Done /\ n_slices = 2 /\ Len(plots) = 4 /\ Len(composes) = 2

====
